---- MODULE Spec2Model ----
(***************************************************************************)
(* Model of paypal_tax_helper.py: the sequential pass of main() over the   *)
(* transaction ledger (process_income / process_withdrawal), the rate      *)
(* table built by load_ttm, and the output stage that follows the pass.    *)
(*                                                                         *)
(* Numbers.  Every amount of the program is a Python float.  A float is    *)
(* modelled as a record [nan, val]: NaN is a value of its own (an empty    *)
(* TTM cell that forward-fill cannot fill stays NaN), every other float is *)
(* an integer val.  Rounding of binary floating point is not modelled.     *)
(*                                                                         *)
(* Dates are day numbers 1..MaxDay; a scaled-down calendar maps a day to   *)
(* its year and month.                                                     *)
(***************************************************************************)
EXTENDS Integers, Sequences, FiniteSets, TLC

\* ---------------------------------------------------------------- bounds
MaxRows == 3          \* longest ledger (rows of transactions.csv)
MaxLongRows == 4      \* longest ledger of the long-ledger specification
MaxCycleRows == 5     \* longest ledger of the cycle specification
MaxDay == 2           \* dates are the days 1..MaxDay
DaysPerMonth == 1     \* scaled-down calendar
MonthsPerYear == 2

Days == 1..MaxDay

\* ---------------------------------------------------------------- floats
NaN == [nan |-> TRUE, val |-> 0]
F(n) == [nan |-> FALSE, val |-> n]

IsZero(x) == (~x.nan) /\ x.val = 0            \* Python: x == 0
Add(x, y) == IF x.nan \/ y.nan THEN NaN ELSE F(x.val + y.val)
Sub(x, y) == IF x.nan \/ y.nan THEN NaN ELSE F(x.val - y.val)
Mul(x, y) == IF x.nan \/ y.nan THEN NaN ELSE F(x.val * y.val)
Neg(x) == IF x.nan THEN NaN ELSE F(0 - x.val)

\* ---------------------------------------------------------------- inputs
\* ttm_rates.csv, one row per date at most.  The TTM cell of a row holds the
\* quote of its day, or is empty (NaN after pd.to_numeric); a day may also
\* have no row at all.  The quote of day d is d + 1, so that the quotes of
\* different days differ.
Quote(d) == F(d + 1)
TtmCells == {NaN} \cup {Quote(d) : d \in Days}
TtmFilesOn(S) == {csv \in [S -> TtmCells] : \A d \in S : csv[d] \in {NaN, Quote(d)}}
TtmFiles == UNION {TtmFilesOn(S) : S \in SUBSET Days}

\* Rows of transactions.csv after load_transactions.  currency is the column
\* 通貨, effect the column 残高への影響 ("deposit" = 入金, "withdrawal" =
\* 引落し, "other" = any other label), net the column 正味.
UsdDeposits == [date : Days, currency : {"USD"}, effect : {"deposit"},
                net : {F(-1), F(1)}]
UsdWithdrawals == [date : Days, currency : {"USD"}, effect : {"withdrawal"},
                   net : {F(-1)}]
JpyWithdrawals == [date : Days, currency : {"JPY"}, effect : {"withdrawal"},
                   net : {F(-3)}]
OtherRows == [date : {1}, currency : {"JPY"}, effect : {"deposit"}, net : {F(3)}]
               \cup [date : {1}, currency : {"USD"}, effect : {"other"}, net : {F(1)}]
Rows == UsdDeposits \cup UsdWithdrawals \cup JpyWithdrawals \cup OtherRows

\* The ledgers of the main specification: the rows in any order.
Ledgers == UNION {[1..n -> Rows] : n \in 0..MaxRows}

\* The ledgers of the long-ledger specification: longer, in chronological
\* order as an account statement is, with USD deposits of 1 or 2 dollars, USD
\* withdrawals and JPY withdrawal rows of two amounts; its rate files have a
\* row for every day.
LongTtmFiles == TtmFilesOn(Days)
LongRows == [date : Days, currency : {"USD"}, effect : {"deposit"}, net : {F(1), F(2)}]
              \cup [date : Days, currency : {"USD"}, effect : {"withdrawal"}, net : {F(-1)}]
              \cup [date : Days, currency : {"JPY"}, effect : {"withdrawal"},
                    net : {F(-3), F(-5)}]
Chronological(ledger) ==
    \A a, b \in 1..Len(ledger) : a < b => ledger[a].date <= ledger[b].date
LongLedgers ==
    UNION {{ledger \in [1..n -> LongRows] : Chronological(ledger)} : n \in 0..MaxLongRows}

\* The ledgers of the cycle specification: long enough for two cycles of
\* deposit and withdrawal before one JPY withdrawal row, in chronological
\* order, with a rate file that quotes every day.
CycleTtmFile == [d \in Days |-> Quote(d)]
CycleRows == [date : Days, currency : {"USD"}, effect : {"deposit"}, net : {F(1)}]
               \cup [date : Days, currency : {"USD"}, effect : {"withdrawal"}, net : {F(-1)}]
               \cup [date : Days, currency : {"JPY"}, effect : {"withdrawal"}, net : {F(-3)}]
CycleLedgers ==
    UNION {{ledger \in [1..n -> CycleRows] : Chronological(ledger)} : n \in 0..MaxCycleRows}

\* ---------------------------------------------------------------- load_ttm
SetMax(S) == CHOOSE m \in S : \A e \in S : e <= m

\* The TTM of row d after sort_values("日付") and ffill(): its own value, or
\* the value of the closest earlier row that has one, or NaN if there is none.
RECURSIVE ffill(_, _)
ffill(csv, d) ==
    IF ~csv[d].nan THEN csv[d]
    ELSE LET earlier == {e \in DOMAIN csv : e < d}
         IN IF earlier = {} THEN NaN ELSE ffill(csv, SetMax(earlier))

load_ttm(csv) == [d \in DOMAIN csv |-> ffill(csv, d)]

\* ttm_df.loc[pd.Timestamp(date)] raises KeyError when the index has no such
\* date.
HasRate(ttm, date) == date \in DOMAIN ttm

\* ---------------------------------------------------------------- engine
\* line 61: jpy_income = amount * ttm
jpy_income_of(amount, rate) == Mul(amount, rate)

\* Variant: the accumulator is overwritten (=) instead of added to (+=).
accumulate_overwrites(accumulated, jpy_income) == jpy_income

\* line 64: accumulated_jpy_income += jpy_income
accumulate(accumulated, jpy_income) == Add(accumulated, jpy_income)

\* Variant: a failed rate lookup is swallowed and the row is skipped.
process_income_skips(row, ttm, balance, accumulated, records) ==
    IF ~HasRate(ttm, row.date)
    THEN [raised |-> FALSE, usd_balance |-> balance,
          accumulated_jpy_income |-> accumulated, records |-> records]
    ELSE LET amount == row.net
             rate == ttm[row.date]
             jpy_income == Mul(amount, rate)
         IN [raised |-> FALSE,
             usd_balance |-> Add(balance, amount),
             accumulated_jpy_income |-> Add(accumulated, jpy_income),
             records |-> Append(records,
                 [date |-> row.date, usd_amount |-> amount, ttm |-> rate,
                  jpy_equivalent |-> jpy_income])]

\* Result of process_income: raised is TRUE when the rate lookup raised.
process_income(row, ttm, balance, accumulated, records) ==
    IF ~HasRate(ttm, row.date)
    THEN [raised |-> TRUE, usd_balance |-> balance,
          accumulated_jpy_income |-> accumulated, records |-> records]
    ELSE LET amount == row.net
             rate == ttm[row.date]
             jpy_income == jpy_income_of(amount, rate)
         IN [raised |-> FALSE,
             usd_balance |-> Add(balance, amount),
             accumulated_jpy_income |-> accumulate(accumulated, jpy_income),
             records |-> Append(records,
                 [date |-> row.date, usd_amount |-> amount, ttm |-> rate,
                  jpy_equivalent |-> jpy_income])]

\* Variant: the filter of line 114 without its date condition.
IsJpyOutAnyDate(r, date) ==
    r.currency = "JPY" /\ r.effect = "withdrawal"

\* line 114: the condition of the filter
IsJpyOut(r, date) ==
    r.date = date /\ r.currency = "JPY" /\ r.effect = "withdrawal"

\* Indices of the ledger rows selected by the filter of line 114, in order.
jpy_out_row(ledger, date) ==
    SelectSeq([k \in 1..Len(ledger) |-> k], LAMBDA k : IsJpyOut(ledger[k], date))

\* Variant: no guard on an empty balance.
never_nothing_to_withdraw(balance) == FALSE

\* line 107: if usd_balance == 0
nothing_to_withdraw(balance) == IsZero(balance)

\* line 119: fx_profit = jpy_evaluated - accumulated_jpy_income
fx_profit_of(jpy_evaluated, accumulated) == Sub(jpy_evaluated, accumulated)

\* Variant: the operands of the spread swapped.
spread_swapped(jpy_evaluated, jpy_out) == Sub(jpy_out, jpy_evaluated)

\* line 120: spread = jpy_evaluated - jpy_out
spread_of(jpy_evaluated, jpy_out) == Sub(jpy_evaluated, jpy_out)

\* Variants: one of the two resets of lines 137-138 left out.
balance_not_reset(balance) == balance
accumulated_not_reset(accumulated) == accumulated

\* lines 137-138: the state after a recognized withdrawal
balance_after_withdrawal(balance) == F(0)
accumulated_after_withdrawal(accumulated) == F(0)

process_withdrawal(row, ttm, balance, accumulated, records, ledger) ==
    LET same == [raised |-> FALSE, usd_balance |-> balance,
                 accumulated_jpy_income |-> accumulated, records |-> records,
                 jpy_row |-> 0]
    IN IF nothing_to_withdraw(balance) THEN same
       ELSE IF ~HasRate(ttm, row.date) THEN [same EXCEPT !.raised = TRUE]
       ELSE LET ttm_out == ttm[row.date]
                jpy_evaluated == Mul(balance, ttm_out)
                matches == jpy_out_row(ledger, row.date)
            IN IF matches = <<>> THEN same
               ELSE LET jpy_out == Neg(ledger[matches[1]].net)
                        fx_profit == fx_profit_of(jpy_evaluated, accumulated)
                        spread == spread_of(jpy_evaluated, jpy_out)
                    IN [raised |-> FALSE,
                        usd_balance |-> balance_after_withdrawal(balance),
                        accumulated_jpy_income |-> accumulated_after_withdrawal(accumulated),
                        records |-> Append(records,
                            [date |-> row.date,
                             usd_amount |-> balance,
                             ttm |-> ttm_out,
                             jpy_cost_basis |-> accumulated,
                             fx_gain_loss |-> fx_profit,
                             spread_expense |-> spread,
                             actual_jpy_paid_out |-> jpy_out,
                             jpy_mark_to_market |-> jpy_evaluated]),
                        jpy_row |-> matches[1]]

\* ---------------------------------------------------------------- report
\* A cell left blank by the other kind of record (the "" of lines 161-164, 180).
Blank == [nan |-> TRUE, val |-> -1]

\* lines 155-194: both frames projected on the common columns and
\* concatenated, income rows first.
merged_rows(income, withdrawal) ==
    [k \in 1..Len(income) |->
        [kind |-> "income", date |-> income[k].date,
         usd_amount |-> income[k].usd_amount, ttm |-> income[k].ttm,
         jpy_equivalent |-> income[k].jpy_equivalent,
         jpy_cost_basis |-> Blank, fx_gain_loss |-> Blank,
         spread_expense |-> Blank, actual_jpy_paid_out |-> Blank]]
    \o
    [k \in 1..Len(withdrawal) |->
        [kind |-> "withdrawal", date |-> withdrawal[k].date,
         usd_amount |-> withdrawal[k].usd_amount, ttm |-> withdrawal[k].ttm,
         jpy_equivalent |-> Blank,
         jpy_cost_basis |-> withdrawal[k].jpy_cost_basis,
         fx_gain_loss |-> withdrawal[k].fx_gain_loss,
         spread_expense |-> withdrawal[k].spread_expense,
         actual_jpy_paid_out |-> withdrawal[k].actual_jpy_paid_out]]

\* A frame built from an empty list has none of the record columns, and
\* selecting the common columns from it (line 194) raises KeyError.
merge_raises(income, withdrawal) == income = <<>> \/ withdrawal = <<>>

\* line 195: sort_values("日付") with the default sort kind, which is not
\* stable: the result is some ordering of the rows by nondecreasing date.
index_orders(n) == {p \in [1..n -> 1..n] : \A a, b \in 1..n : a # b => p[a] # p[b]}

date_orders(rows) ==
    {p \in index_orders(Len(rows)) :
        \A a, b \in 1..Len(rows) : a < b => rows[p[a]].date <= rows[p[b]].date}

\* Variant: a withdrawal row is added to the balance like an income row.
RECURSIVE running_balance_adds(_, _)
running_balance_adds(rows, k) ==
    IF k = 0 THEN F(0)
    ELSE Add(running_balance_adds(rows, k - 1), rows[k].usd_amount)

\* lines 198-208: the running balance after the first k rows.
RECURSIVE running_balance(_, _)
running_balance(rows, k) ==
    IF k = 0 THEN F(0)
    ELSE LET before == running_balance(rows, k - 1)
         IN IF rows[k].kind = "income" THEN Add(before, rows[k].usd_amount)
            ELSE IF rows[k].kind = "withdrawal" THEN Sub(before, rows[k].usd_amount)
            ELSE before

\* lines 197-212: the sorted rows with the two balance columns.
with_balances(rows) ==
    [k \in 1..Len(rows) |->
        [kind |-> rows[k].kind, date |-> rows[k].date,
         usd_amount |-> rows[k].usd_amount, ttm |-> rows[k].ttm,
         jpy_equivalent |-> rows[k].jpy_equivalent,
         jpy_cost_basis |-> rows[k].jpy_cost_basis,
         fx_gain_loss |-> rows[k].fx_gain_loss,
         spread_expense |-> rows[k].spread_expense,
         actual_jpy_paid_out |-> rows[k].actual_jpy_paid_out,
         usd_balance |-> running_balance(rows, k),
         jpy_balance |-> Mul(running_balance(rows, k), rows[k].ttm)]]

\* The reports create_merged_report can write for the two record lists.
create_merged_report(income, withdrawal) ==
    LET rows == merged_rows(income, withdrawal)
    IN {with_balances([k \in 1..Len(rows) |-> rows[p[k]]]) : p \in date_orders(rows)}

\* ---------------------------------------------------------------- summary
\* .dt.year and .dt.month of a day of the scaled-down calendar
YearOf(d) == 2024 + ((d - 1) \div (DaysPerMonth * MonthsPerYear))
MonthOf(d) == (((d - 1) \div DaysPerMonth) % MonthsPerYear) + 1

\* line 260: pd.to_numeric(...).fillna(0)
fillna0(x) == IF x.nan THEN F(0) ELSE x

\* lines 222-260: the combined frame.  The cost basis of a withdrawal record
\* is renamed to the column of the JPY equivalent of an income record.
summary_rows(income, withdrawal) ==
    [k \in 1..Len(income) |->
        [kind |-> "income", date |-> income[k].date,
         usd_amount |-> fillna0(income[k].usd_amount),
         jpy_equivalent |-> fillna0(income[k].jpy_equivalent),
         fx_gain_loss |-> F(0), spread_expense |-> F(0),
         actual_jpy_paid_out |-> F(0)]]
    \o
    [k \in 1..Len(withdrawal) |->
        [kind |-> "withdrawal", date |-> withdrawal[k].date,
         usd_amount |-> fillna0(withdrawal[k].usd_amount),
         jpy_equivalent |-> fillna0(withdrawal[k].jpy_cost_basis),
         fx_gain_loss |-> fillna0(withdrawal[k].fx_gain_loss),
         spread_expense |-> fillna0(withdrawal[k].spread_expense),
         actual_jpy_paid_out |-> fillna0(withdrawal[k].actual_jpy_paid_out)]]

\* lines 254-256, 263: the group of a row
group_of(date, group_keys) ==
    IF "month" \in group_keys THEN <<YearOf(date), MonthOf(date)>>
    ELSE <<YearOf(date)>>

\* group.loc[group["種別"] == kind, column].sum()
RECURSIVE group_sum(_, _, _, _, _)
group_sum(rows, group_keys, key, kind, column) ==
    IF rows = <<>> THEN F(0)
    ELSE LET r == Head(rows)
             rest == group_sum(Tail(rows), group_keys, key, kind, column)
         IN IF group_of(r.date, group_keys) = key /\ r.kind = kind
            THEN Add(r[column], rest) ELSE rest

\* lines 262-279: one row of the summary
summary_row(rows, group_keys, key) ==
    LET a == group_sum(rows, group_keys, key, "income", "usd_amount")
        b == group_sum(rows, group_keys, key, "income", "jpy_equivalent")
        c == group_sum(rows, group_keys, key, "withdrawal", "fx_gain_loss")
        d == group_sum(rows, group_keys, key, "withdrawal", "actual_jpy_paid_out")
        e == group_sum(rows, group_keys, key, "withdrawal", "spread_expense")
    IN [key |-> key, A |-> a, B |-> b, C |-> c, D |-> d, E |-> e,
        misc_income |-> Add(b, c), deductible_expense |-> e]

\* Group keys compare as tuples: by year, then by month.
KeyLess(x, y) ==
    \/ x[1] < y[1]
    \/ x[1] = y[1] /\ Len(x) = 2 /\ x[2] < y[2]

RECURSIVE sorted_keys(_)
sorted_keys(keys) ==
    IF keys = {} THEN <<>>
    ELSE LET first == CHOOSE k \in keys : \A o \in keys : o = k \/ KeyLess(k, o)
         IN <<first>> \o sorted_keys(keys \ {first})

\* lines 220-280: one row per group, in the order of the group keys
compute_common_summary(income, withdrawal, group_keys) ==
    LET rows == summary_rows(income, withdrawal)
        keys == {group_of(rows[k].date, group_keys) : k \in 1..Len(rows)}
        order == sorted_keys(keys)
    IN [k \in 1..Len(order) |-> summary_row(rows, group_keys, order[k])]

\* ---------------------------------------------------------------- state
VARIABLES
    ttm_csv,                 \* ttm_rates.csv: date -> TTM cell
    ttm_df,                  \* load_ttm(ttm_csv)
    df,                      \* the ledger, load_transactions(transactions.csv)
    i,                       \* index of the next row of df.iterrows()
    usd_balance,
    accumulated_jpy_income,
    income_records,
    withdrawal_records,
    recognized,              \* history: for each withdrawal record, the index
                             \* in df of the USD row that was processed and
                             \* of the JPY row that supplied jpy_out
    pc,                      \* "pass", "merged", "monthly", "yearly", "done",
                             \* "aborted"
    files,                   \* names of the output artifacts written so far
    report,                  \* rows of transaction_report.csv
    monthly_summary,         \* rows of monthly_summary.csv
    yearly_summary           \* rows of yearly_summary.csv

vars == <<ttm_csv, ttm_df, df, i, usd_balance, accumulated_jpy_income,
          income_records, withdrawal_records, recognized, pc, files, report,
          monthly_summary, yearly_summary>>

inputs == <<ttm_csv, ttm_df, df>>
engine == <<i, usd_balance, accumulated_jpy_income, income_records,
            withdrawal_records, recognized>>
outputs == <<files, report, monthly_summary, yearly_summary>>

\* main, lines 364-371
InitState ==
    /\ ttm_df = load_ttm(ttm_csv)
    /\ i = 1
    /\ usd_balance = F(0)
    /\ accumulated_jpy_income = F(0)
    /\ income_records = <<>>
    /\ withdrawal_records = <<>>
    /\ recognized = <<>>
    /\ pc = "pass"
    /\ files = {}
    /\ report = <<>>
    /\ monthly_summary = <<>>
    /\ yearly_summary = <<>>

Init ==
    /\ ttm_csv \in TtmFiles
    /\ df \in Ledgers
    /\ InitState

\* Variant: the currency test of line 375 left out.
IsAnyDeposit(row) == row.effect = "deposit"

IsUsdDeposit(row) == row.currency = "USD" /\ row.effect = "deposit"
IsUsdWithdrawal(row) == row.currency = "USD" /\ row.effect = "withdrawal"

\* main, lines 375-378
ProcessIncome ==
    /\ pc = "pass" /\ i <= Len(df)
    /\ IsUsdDeposit(df[i])
    /\ LET r == process_income(df[i], ttm_df, usd_balance,
                               accumulated_jpy_income, income_records)
       IN IF r.raised
          THEN /\ pc' = "aborted"
               /\ UNCHANGED <<i, usd_balance, accumulated_jpy_income, income_records>>
          ELSE /\ pc' = pc
               /\ i' = i + 1
               /\ usd_balance' = r.usd_balance
               /\ accumulated_jpy_income' = r.accumulated_jpy_income
               /\ income_records' = r.records
    /\ UNCHANGED <<inputs, withdrawal_records, recognized, outputs>>

\* main, lines 379-382
ProcessWithdrawal ==
    /\ pc = "pass" /\ i <= Len(df)
    /\ IsUsdWithdrawal(df[i])
    /\ LET r == process_withdrawal(df[i], ttm_df, usd_balance,
                                   accumulated_jpy_income, withdrawal_records, df)
       IN IF r.raised
          THEN /\ pc' = "aborted"
               /\ UNCHANGED <<i, usd_balance, accumulated_jpy_income,
                              withdrawal_records, recognized>>
          ELSE /\ pc' = pc
               /\ i' = i + 1
               /\ usd_balance' = r.usd_balance
               /\ accumulated_jpy_income' = r.accumulated_jpy_income
               /\ withdrawal_records' = r.records
               /\ recognized' = IF r.jpy_row = 0 THEN recognized
                                ELSE Append(recognized,
                                            [usd_row |-> i, jpy_row |-> r.jpy_row])
    /\ UNCHANGED <<inputs, income_records, outputs>>

\* main, lines 374-382: a row that matches neither branch
SkipRow ==
    /\ pc = "pass" /\ i <= Len(df)
    /\ ~IsUsdDeposit(df[i]) /\ ~IsUsdWithdrawal(df[i])
    /\ i' = i + 1
    /\ UNCHANGED <<inputs, usd_balance, accumulated_jpy_income, income_records,
                   withdrawal_records, recognized, pc, outputs>>

\* main, lines 385-386
WriteDetails ==
    /\ pc = "pass" /\ i > Len(df)
    /\ files' = files \cup {"withdrawal_details", "income_details"}
    /\ pc' = "merged"
    /\ UNCHANGED <<inputs, engine, report, monthly_summary, yearly_summary>>

\* Variant: the report is built by taking the records out of the income list.
CreateMergedReportConsumes ==
    /\ pc = "merged"
    /\ IF merge_raises(income_records, withdrawal_records)
       THEN /\ pc' = "aborted"
            /\ UNCHANGED <<files, report, income_records>>
       ELSE /\ report' \in create_merged_report(income_records, withdrawal_records)
            /\ files' = files \cup {"transaction_report"}
            /\ income_records' = <<>>
            /\ pc' = "monthly"
    /\ UNCHANGED <<inputs, i, usd_balance, accumulated_jpy_income,
                   withdrawal_records, recognized, monthly_summary,
                   yearly_summary>>

\* main, line 393
CreateMergedReport ==
    /\ pc = "merged"
    /\ IF merge_raises(income_records, withdrawal_records)
       THEN /\ pc' = "aborted"
            /\ UNCHANGED <<files, report>>
       ELSE /\ report' \in create_merged_report(income_records, withdrawal_records)
            /\ files' = files \cup {"transaction_report"}
            /\ pc' = "monthly"
    /\ UNCHANGED <<inputs, engine, monthly_summary, yearly_summary>>

\* main, line 396
CreateMonthlySummary ==
    /\ pc = "monthly"
    /\ monthly_summary' = compute_common_summary(income_records, withdrawal_records,
                                                 {"year", "month"})
    /\ files' = files \cup {"monthly_summary"}
    /\ pc' = "yearly"
    /\ UNCHANGED <<inputs, engine, report, yearly_summary>>

\* main, line 397
CreateYearlySummary ==
    /\ pc = "yearly"
    /\ yearly_summary' = compute_common_summary(income_records, withdrawal_records,
                                                {"year"})
    /\ files' = files \cup {"yearly_summary"}
    /\ pc' = "done"
    /\ UNCHANGED <<inputs, engine, report, monthly_summary>>

Next ==
    \/ ProcessIncome
    \/ ProcessWithdrawal
    \/ SkipRow
    \/ WriteDetails
    \/ CreateMergedReport
    \/ CreateMonthlySummary
    \/ CreateYearlySummary

Spec == Init /\ [][Next]_vars

\* The same program run on the longer ledgers.
InitLong ==
    /\ ttm_csv \in LongTtmFiles
    /\ df \in LongLedgers
    /\ InitState

SpecLong == InitLong /\ [][Next]_vars

\* The same program run on the ledgers with several cycles.
InitCycle ==
    /\ ttm_csv = CycleTtmFile
    /\ df \in CycleLedgers
    /\ InitState

SpecCycle == InitCycle /\ [][Next]_vars

\* ================================================================ claims
Last(s) == s[Len(s)]

\* The pass is about to process row i of the ledger.
AtRow == pc = "pass" /\ i <= Len(df)

\* Row k of the ledger is a JPY withdrawal row dated as row j.
SameDateJpyOut(k, j) ==
    df[k].currency = "JPY" /\ df[k].effect = "withdrawal" /\ df[k].date = df[j].date

Settled(j) == \E k \in 1..Len(df) : SameDateJpyOut(k, j)

FirstJpyOut(j) == CHOOSE k \in 1..Len(df) :
    SameDateJpyOut(k, j) /\ \A m \in 1..(k - 1) : ~SameDateJpyOut(m, j)

\* The step from the current state recognizes a withdrawal.
Recognizes == Len(withdrawal_records') = Len(withdrawal_records) + 1

EngineUnchanged ==
    /\ usd_balance' = usd_balance
    /\ accumulated_jpy_income' = accumulated_jpy_income
    /\ income_records' = income_records
    /\ withdrawal_records' = withdrawal_records

\* ---------------------------------------------------------------- C1
Positive(x) == (~x.nan) /\ x.val > 0

DepositsPositive ==
    \A j \in 1..Len(df) :
        (df[j].currency = "USD" /\ df[j].effect = "deposit") => Positive(df[j].net)

\* C1, as stated: in every state of every run, accumulated_jpy_cost_basis is
\* nonzero only if usd_balance is nonzero.
C1_Original == (~IsZero(accumulated_jpy_income)) => ~IsZero(usd_balance)

\* C1, amended: for every ledger whose USD deposit rows all have a positive
\* net amount, and every rate table, accumulated_jpy_cost_basis is nonzero
\* only if usd_balance is nonzero, after every row.
C1_Amended == DepositsPositive => C1_Original

\* A run on such a ledger that holds dollars with a nonzero cost basis.
C1_Witness ==
    /\ DepositsPositive
    /\ income_records # <<>>
    /\ ~IsZero(accumulated_jpy_income)
    /\ ~IsZero(usd_balance)

\* ---------------------------------------------------------------- C2
\* The days at or before d for which the rate file has a quote.
KnownDays(d) == {e \in DOMAIN ttm_csv : e <= d /\ ~ttm_csv[e].nan}

ForwardFilled(rec) ==
    /\ KnownDays(rec.date) # {}
    /\ rec.ttm = ttm_csv[SetMax(KnownDays(rec.date))]

\* C2, as stated: every record is valued at the most recent known rate at or
\* before its date, and the pass fails on a rate lookup only for a date
\* before the earliest known rate.
C2_Claim ==
    /\ \A k \in 1..Len(income_records) : ForwardFilled(income_records[k])
    /\ \A k \in 1..Len(withdrawal_records) : ForwardFilled(withdrawal_records[k])
    /\ (pc = "aborted" /\ files = {}) => KnownDays(df[i].date) = {}

\* ---------------------------------------------------------------- C3
\* C3: a step that appends a withdrawal record fills it from the balance and
\* the accumulated basis before the step, the rate of the withdrawal date and
\* the net amount of the first same-date JPY withdrawal row; the net amount of
\* the USD withdrawal row is not used.
C3_RecordFields ==
    [][Recognizes =>
        LET rec == Last(withdrawal_records')
            mtm == Mul(usd_balance, ttm_df[df[i].date])
            paid == Neg(df[FirstJpyOut(i)].net)
        IN /\ ~IsZero(usd_balance) /\ Settled(i)
           /\ rec.date = df[i].date
           /\ rec.usd_amount = usd_balance
           /\ rec.jpy_cost_basis = accumulated_jpy_income
           /\ rec.jpy_mark_to_market = mtm
           /\ rec.actual_jpy_paid_out = paid
           /\ rec.fx_gain_loss = Sub(mtm, accumulated_jpy_income)
           /\ rec.spread_expense = Sub(mtm, paid)]_vars

\* A withdrawal was recognized whose USD row has a net amount other than the
\* amount withdrawn, on a date with two JPY withdrawal rows of different
\* amounts, with a gain and a spread that differ.
C3_Witness ==
    \E k \in 1..Len(withdrawal_records) :
        LET rec == withdrawal_records[k]
            j == recognized[k].usd_row
        IN /\ df[j].net # Neg(rec.usd_amount)
           /\ \E m \in 1..Len(df) :
                 SameDateJpyOut(m, j) /\ df[m].net # Neg(rec.actual_jpy_paid_out)
           /\ ~rec.fx_gain_loss.nan
           /\ rec.fx_gain_loss # rec.spread_expense
           /\ ~IsZero(rec.fx_gain_loss)

\* ---------------------------------------------------------------- C4
UnsettledStep == AtRow /\ df[i].currency = "USD" /\ df[i].effect = "withdrawal"
                 /\ ~Settled(i)

DepositStep == AtRow /\ df[i].currency = "USD" /\ df[i].effect = "deposit"

UnsettledIsNoOp ==
    /\ EngineUnchanged
    /\ pc' = "pass"
    /\ i' = i + 1

DepositAccumulates ==
    /\ usd_balance' = Add(usd_balance, df[i].net)
    /\ accumulated_jpy_income' =
           Add(accumulated_jpy_income, Mul(df[i].net, ttm_df[df[i].date]))

\* C4, as stated: a USD withdrawal row without a same-date JPY withdrawal row
\* changes nothing, emits nothing and the pass goes on to the next row; a
\* deposit on a later date right after it adds on top of the balance and basis.
C4_Original ==
    [][/\ UnsettledStep => UnsettledIsNoOp
       /\ DepositStep => DepositAccumulates]_vars

\* C4, amended: the same, provided the rate lookups do not fail: that of the
\* withdrawal row, made when usd_balance is nonzero before the JPY row is
\* searched, and that of the deposit row.  A failed lookup ends the run.
C4_Amended ==
    [][/\ (UnsettledStep /\ (IsZero(usd_balance) \/ HasRate(ttm_df, df[i].date)))
           => UnsettledIsNoOp
       /\ (DepositStep /\ HasRate(ttm_df, df[i].date)) => DepositAccumulates]_vars

\* A deposit, an unsettled withdrawal with a nonzero balance, then a deposit
\* on a later date were processed, and the balance holds both deposits.
C4_Witness ==
    /\ pc = "pass" /\ i = 4
    /\ df[1].currency = "USD" /\ df[1].effect = "deposit"
    /\ df[2].currency = "USD" /\ df[2].effect = "withdrawal" /\ ~Settled(2)
    /\ df[3].currency = "USD" /\ df[3].effect = "deposit"
    /\ df[3].date > df[2].date
    /\ withdrawal_records = <<>>
    /\ usd_balance = Add(df[1].net, df[3].net)
    /\ ~IsZero(df[1].net) /\ ~IsZero(usd_balance)

\* ---------------------------------------------------------------- C5
\* Sums over the USD deposit rows lo+1 .. hi-1 of the ledger: of their net
\* amounts, and of their net amounts valued each at the rate of its own date.
RECURSIVE DepositedUsd(_, _)
DepositedUsd(lo, hi) ==
    IF hi - 1 <= lo THEN F(0)
    ELSE LET j == hi - 1
         IN IF df[j].currency = "USD" /\ df[j].effect = "deposit"
            THEN Add(DepositedUsd(lo, j), df[j].net)
            ELSE DepositedUsd(lo, j)

RECURSIVE DepositedJpy(_, _)
DepositedJpy(lo, hi) ==
    IF hi - 1 <= lo THEN F(0)
    ELSE LET j == hi - 1
         IN IF df[j].currency = "USD" /\ df[j].effect = "deposit"
            THEN Add(DepositedJpy(lo, j), Mul(df[j].net, ttm_df[df[j].date]))
            ELSE DepositedJpy(lo, j)

PreviousRecognition(k) == IF k = 1 THEN 0 ELSE recognized[k - 1].usd_row

Artifacts == {"income_details", "withdrawal_details", "transaction_report",
              "monthly_summary", "yearly_summary"}

\* C6, as stated: a run ends either with every output artifact written or
\* aborted with none written.
C6_Claim ==
    /\ pc = "done" => files = Artifacts
    /\ pc = "aborted" => files = {}

\* ---------------------------------------------------------------- C7
\* The sum of a field over the records of a list dated in a group.
RECURSIVE SumInGroup(_, _, _, _)
SumInGroup(records, field, key, monthly) ==
    IF records = <<>> THEN F(0)
    ELSE LET r == Head(records)
             k == IF monthly THEN <<YearOf(r.date), MonthOf(r.date)>>
                             ELSE <<YearOf(r.date)>>
             rest == SumInGroup(Tail(records), field, key, monthly)
         IN IF k = key THEN Add(r[field], rest) ELSE rest

SummaryRowIsSum(row, monthly) ==
    /\ row.A = SumInGroup(income_records, "usd_amount", row.key, monthly)
    /\ row.B = SumInGroup(income_records, "jpy_equivalent", row.key, monthly)
    /\ row.C = SumInGroup(withdrawal_records, "fx_gain_loss", row.key, monthly)
    /\ row.D = SumInGroup(withdrawal_records, "actual_jpy_paid_out", row.key, monthly)
    /\ row.E = SumInGroup(withdrawal_records, "spread_expense", row.key, monthly)
    /\ row.misc_income = Add(row.B, row.C)
    /\ row.deductible_expense = row.E

\* C7, as stated: every row of the monthly and of the yearly summary holds the
\* sums of the fields of the income and withdrawal records dated in its group
\* (hence 0 for (C), (D), (E) in a group without withdrawal records).
C7_Claim ==
    pc = "done" =>
        /\ \A k \in 1..Len(monthly_summary) : SummaryRowIsSum(monthly_summary[k], TRUE)
        /\ \A k \in 1..Len(yearly_summary) : SummaryRowIsSum(yearly_summary[k], FALSE)

\* ---------------------------------------------------------------- C9
RecognitionStep ==
    /\ AtRow /\ df[i].currency = "USD" /\ df[i].effect = "withdrawal"
    /\ ~IsZero(usd_balance)
    /\ Settled(i)

RecognizesAndResets ==
    /\ Recognizes
    /\ withdrawal_records = SubSeq(withdrawal_records', 1, Len(withdrawal_records))
    /\ usd_balance' = F(0)
    /\ accumulated_jpy_income' = F(0)

\* A step that is no recognition appends no withdrawal record, and leaves the
\* balance and the basis alone unless it is a deposit, which adds to them.
NoRecognition ==
    /\ withdrawal_records' = withdrawal_records
    /\ \/ usd_balance' = usd_balance /\ accumulated_jpy_income' = accumulated_jpy_income
       \/ DepositStep /\ DepositAccumulates

\* C9, as stated: a USD withdrawal row processed with a nonzero balance and a
\* same-date JPY withdrawal row in the ledger appends exactly one withdrawal
\* record and leaves balance and basis at 0; no other step appends a
\* withdrawal record or resets the state.
C9_Original ==
    [][IF RecognitionStep THEN RecognizesAndResets ELSE NoRecognition]_vars

\* C9, amended: the same, provided the rate lookup for the date of the
\* withdrawal row does not fail; when it fails the run ends at that row with
\* no record appended and the state as it was.
C9_Amended ==
    [][IF RecognitionStep /\ HasRate(ttm_df, df[i].date)
       THEN RecognizesAndResets ELSE NoRecognition]_vars

\* A withdrawal was recognized from a nonzero balance: one record, state (0, 0).
C9_Witness ==
    /\ Len(withdrawal_records) = 1
    /\ ~IsZero(withdrawal_records[1].usd_amount)
    /\ i = recognized[1].usd_row + 1
    /\ IsZero(usd_balance)
    /\ IsZero(accumulated_jpy_income)

\* ---------------------------------------------------------------- C10
EmptyWithdrawalStep ==
    AtRow /\ df[i].currency = "USD" /\ df[i].effect = "withdrawal"
          /\ IsZero(usd_balance)

\* C10: a USD withdrawal row processed while usd_balance = 0 changes nothing,
\* emits nothing and raises nothing, whatever the rate table and the ledger
\* hold for its date: the pass goes on to the next row.
C10_EmptyWithdrawalIsNoOp ==
    [][EmptyWithdrawalStep => (EngineUnchanged /\ pc' = "pass" /\ i' = i + 1)]_vars

\* The first row, a USD withdrawal on a date without a rate row and with a
\* JPY withdrawal row, was processed at balance 0 and the pass went on.
C10_Witness ==
    /\ pc = "pass" /\ i = 2
    /\ df[1].currency = "USD" /\ df[1].effect = "withdrawal"
    /\ ~HasRate(ttm_df, df[1].date)
    /\ Settled(1)
    /\ IsZero(usd_balance)
    /\ withdrawal_records = <<>>

\* ---------------------------------------------------------------- C11
OtherRowStep ==
    AtRow /\ ~(df[i].currency = "USD" /\ df[i].effect \in {"deposit", "withdrawal"})

\* C11: processing a row that is neither a USD deposit nor a USD withdrawal
\* leaves usd_balance, the accumulated basis and both record lists unchanged,
\* and the pass goes on to the next row.
C11_OtherRowsPassThrough ==
    [][OtherRowStep => (EngineUnchanged /\ pc' = "pass" /\ i' = i + 1)]_vars

\* After a USD deposit, a row of another kind that is no JPY withdrawal (a JPY
\* deposit or a USD row with another label) was processed and the state is
\* the one the deposit left.
C11_Witness ==
    /\ pc = "pass" /\ i = 3
    /\ df[1].currency = "USD" /\ df[1].effect = "deposit"
    /\ ~(df[2].currency = "USD" /\ df[2].effect \in {"deposit", "withdrawal"})
    /\ ~(df[2].currency = "JPY" /\ df[2].effect = "withdrawal")
    /\ Len(income_records) = 1
    /\ usd_balance = df[1].net
    /\ withdrawal_records = <<>>

\* ---------------------------------------------------------------- C12
\* The rate lookup of row j fails: the rate table has no row for its date.
LookupFails(j) == df[j].date \notin DOMAIN ttm_df

FailedLookupStep ==
    /\ AtRow /\ df[i].currency = "USD"
    /\ \/ df[i].effect = "deposit"
       \/ df[i].effect = "withdrawal" /\ ~IsZero(usd_balance)
    /\ LookupFails(i)

\* C12: when the rate lookup fails for a USD deposit row, or for a USD
\* withdrawal row processed with a nonzero balance, the pass stops at that row
\* with the state as it was, no output artifact is written, and the run takes
\* no further step.
C12_FailedLookupAborts ==
    [][/\ FailedLookupStep =>
              (pc' = "aborted" /\ i' = i /\ EngineUnchanged /\ files' = {})
       /\ pc = "aborted" => UNCHANGED vars]_vars

\* A run that deposited, then stopped at a USD withdrawal row whose date has
\* no rate, with nothing written.
C12_Witness ==
    /\ pc = "aborted" /\ files = {}
    /\ i <= Len(df)
    /\ df[i].currency = "USD" /\ df[i].effect = "withdrawal"
    /\ LookupFails(i)
    /\ income_records # <<>>
    /\ ~IsZero(usd_balance)

\* ---------------------------------------------------------------- C13
ReportWritten == pc \in {"monthly", "yearly", "done"}

\* C13: in the merged report, the running usd_balance of each row is that of
\* the row before (0 before the first row) plus usd_amount on an income row,
\* minus usd_amount on a withdrawal row, and jpy_balance is that running
\* balance times the rate of the row.
C13_RunningBalance ==
    ReportWritten =>
        \A k \in 1..Len(report) :
            LET before == IF k = 1 THEN F(0) ELSE report[k - 1].usd_balance
                row == report[k]
            IN /\ row.kind \in {"income", "withdrawal"}
               /\ row.usd_balance = IF row.kind = "income"
                                    THEN Add(before, row.usd_amount)
                                    ELSE Sub(before, row.usd_amount)
               /\ row.jpy_balance = Mul(row.usd_balance, row.ttm)

\* A report in which an income row follows a withdrawal row, with a balance
\* in yen that is a number and not zero.
C13_Witness ==
    /\ ReportWritten
    /\ \E k \in 1..(Len(report) - 1) :
          /\ report[k].kind = "withdrawal"
          /\ report[k + 1].kind = "income"
          /\ ~report[k + 1].jpy_balance.nan
          /\ ~IsZero(report[k + 1].jpy_balance)
          /\ ~IsZero(report[k].usd_amount)

\* ---------------------------------------------------------------- C14
\* The rows of the concatenation of line 194 in the order a stable sort by
\* date gives them: rows of one date keep the order of the concatenation.
StableByDate(rows) ==
    LET p == CHOOSE q \in date_orders(rows) :
                 \A a, b \in 1..Len(rows) :
                     (a < b /\ rows[q[a]].date = rows[q[b]].date) => q[a] < q[b]
    IN [k \in 1..Len(rows) |-> rows[p[k]]]

ReportRow(r) ==
    [kind |-> r.kind, date |-> r.date, usd_amount |-> r.usd_amount,
     ttm |-> r.ttm, jpy_equivalent |-> r.jpy_equivalent,
     jpy_cost_basis |-> r.jpy_cost_basis, fx_gain_loss |-> r.fx_gain_loss,
     spread_expense |-> r.spread_expense,
     actual_jpy_paid_out |-> r.actual_jpy_paid_out]

\* C14: the merged report lists every income and withdrawal record in
\* nondecreasing date order, and records of one date keep the order they have
\* in the concatenation (income records first, each list in emission order).
C14_Claim ==
    ReportWritten =>
        LET rows == merged_rows(income_records, withdrawal_records)
        IN /\ Len(report) = Len(rows)
           /\ \A k \in 1..(Len(report) - 1) : report[k].date <= report[k + 1].date
           /\ [k \in 1..Len(report) |-> ReportRow(report[k])] = StableByDate(rows)

\* ---------------------------------------------------------------- C15
IsPrefix(s, t) == Len(s) <= Len(t) /\ \A k \in 1..Len(s) : t[k] = s[k]

\* C15: on every step each of the two record lists is a prefix of what it is
\* after the step, so records are only appended and an emitted record never
\* changes; the steps that build the report and the summaries leave both lists
\* as they are.
C15_AppendOnly ==
    [][/\ IsPrefix(income_records, income_records')
       /\ IsPrefix(withdrawal_records, withdrawal_records')
       /\ Len(income_records') <= Len(income_records) + 1
       /\ Len(withdrawal_records') <= Len(withdrawal_records) + 1
       /\ pc # "pass" => UNCHANGED <<income_records, withdrawal_records>>]_vars

\* A finished run, report and summaries built, that emitted two income records
\* and a withdrawal record.
C15_Witness ==
    /\ pc = "done"
    /\ Len(income_records) >= 2
    /\ Len(withdrawal_records) >= 1
    /\ Len(report) = Len(income_records) + Len(withdrawal_records)

\* ---------------------------------------------------------------- C16
\* C16: across a run, each JPY withdrawal row of the ledger gives its amount
\* as actual_jpy_paid_out to at most one withdrawal record: no two withdrawal
\* records were settled by the same ledger row.
C16_Claim ==
    \A a, b \in 1..Len(recognized) :
        a # b => recognized[a].jpy_row # recognized[b].jpy_row

\* ---------------------------------------------------------------- C17
\* The report came out in the order of a stable sort.
ReportIsStable ==
    [k \in 1..Len(report) |-> ReportRow(report[k])]
        = StableByDate(merged_rows(income_records, withdrawal_records))

\* C17: the running usd_balance on a row of the merged report is the engine's
\* usd_balance right after the transaction of that row.  The engine leaves 0
\* after every recognized withdrawal and, with deposits of positive amounts,
\* is never below 0; so every withdrawal row of the report shows 0 and no row
\* shows a negative balance.  Stated for the reports written in stable order.
C17_Claim ==
    (ReportWritten /\ ReportIsStable) =>
        \A k \in 1..Len(report) :
            /\ report[k].kind = "withdrawal" => IsZero(report[k].usd_balance)
            /\ ~report[k].usd_balance.nan
            /\ report[k].usd_balance.val >= 0

\* ---------------------------------------------------------------- C18
\* The sum of one column of a record list, added up as floats are.
RECURSIVE ColumnSum(_, _)
ColumnSum(records, column) ==
    IF records = <<>> THEN F(0)
    ELSE Add(ColumnSum(SubSeq(records, 1, Len(records) - 1), column),
             Last(records)[column])

\* C18: in every state of a run, usd_balance is the sum of usd_amount over the
\* income records minus the sum of usd_amount over the withdrawal records, and
\* the accumulated cost basis is the sum of jpy_equivalent over the income
\* records minus the sum of jpy_cost_basis over the withdrawal records.  (NaN
\* is taken as equal to NaN, the reading most favourable to the claim.)
C18_UsdBalanceIsSum ==
    usd_balance = Sub(ColumnSum(income_records, "usd_amount"),
                      ColumnSum(withdrawal_records, "usd_amount"))

C18_BasisIsSum ==
    accumulated_jpy_income = Sub(ColumnSum(income_records, "jpy_equivalent"),
                                 ColumnSum(withdrawal_records, "jpy_cost_basis"))

C18_Claim == C18_UsdBalanceIsSum /\ C18_BasisIsSum

\* ---------------------------------------------------------------- C19
\* C19: in every state of a run, recognized income less expense reconciles
\* with the yen received: the sum of jpy_equivalent over the income records
\* plus the sum of fx_gain_loss minus the sum of spread_expense over the
\* withdrawal records equals the sum of actual_jpy_paid_out over the
\* withdrawal records plus the accumulated cost basis.
C19_Claim ==
    Sub(Add(ColumnSum(income_records, "jpy_equivalent"),
            ColumnSum(withdrawal_records, "fx_gain_loss")),
        ColumnSum(withdrawal_records, "spread_expense"))
    = Add(ColumnSum(withdrawal_records, "actual_jpy_paid_out"),
          accumulated_jpy_income)

====
